---- MODULE Spec2Model ----
(***************************************************************************)
(* A model of the trivia API of backend/flaskr/__init__.py: the question   *)
(* table, the request handlers that read and change it, and the helper     *)
(* that pages a selection.  Strings are sequences of one-character         *)
(* strings, so that lower-casing and LIKE matching are computed.  The      *)
(* table is kept in insertion order, the order Question.query.all() is     *)
(* taken to scan it in; Question.format, insert and delete are those of    *)
(* models.py.                                                              *)
(***************************************************************************)
EXTENDS Integers, Sequences, FiniteSets, TLC

VARIABLES
    store,        \* the questions table: rows in insertion order
    categories,   \* the categories table: a set of rows
    nextId,       \* the id the table's sequence gives the next inserted row
    request,      \* the request the last handler served
    response,     \* the response it gave
    deleted,      \* history: ids of the rows successful deletes removed
    pgPage,       \* paginate_questions on its own: the page argument,
    pgItems,      \*   the selection,
    pgOut,        \*   the returned page,
    pgDone,       \*   and whether the call has returned
    quizCategory, \* a quiz session: the category the client chose,
    previous,     \*   its previous_questions, in the order served,
    served        \*   the questions served so far

vars == <<store, categories, nextId, request, response, deleted,
          pgPage, pgItems, pgOut, pgDone, quizCategory, previous, served>>

apiVars == <<store, categories, nextId, request, response, deleted>>
pgVars == <<pgPage, pgItems, pgOut, pgDone>>
sessionVars == <<quizCategory, previous, served>>

-----------------------------------------------------------------------------
(* Bounds of the model *)

\* ids the table's sequence hands out during a run
MaxId == 3
\* largest page number a request asks for
MaxPage == 2
\* longest selection handed to paginate_questions on its own
MaxItems == 22
\* requests of one quiz session
MaxRounds == 3

-----------------------------------------------------------------------------
(* Program constants *)

QUESTIONS_PER_SHELF == 10

-----------------------------------------------------------------------------
(* Helpers *)

Min(a, b) == IF a < b THEN a ELSE b

Max(a, b) == IF a > b THEN a ELSE b

Range(s) == {s[i] : i \in 1..Len(s)}

\* Python's s[start:end]: a negative index counts from the end, and both
\* indices are clipped to the sequence.
PySlice(s, start, end) ==
    LET n == Len(s)
        lo == IF start < 0 THEN Max(start + n, 0) ELSE Min(start, n)
        hi == IF end < 0 THEN Max(end + n, 0) ELSE Min(end, n)
    IN SubSeq(s, lo + 1, hi)

\* str.lower() / the case folding of ILIKE, on one character
LowerChar(c) ==
    CASE c = "A" -> "a"
      [] c = "B" -> "b"
      [] c = "C" -> "c"
      [] OTHER -> c

Lower(s) == [i \in 1..Len(s) |-> LowerChar(s[i])]

\* SQL's  s LIKE pat : % stands for any run of characters, _ for any one
RECURSIVE Like(_, _)
Like(pat, s) ==
    IF pat = <<>> THEN s = <<>>
    ELSE IF Head(pat) = "%"
         THEN Like(Tail(pat), s) \/ (s # <<>> /\ Like(pat, Tail(s)))
    ELSE IF Head(pat) = "_"
         THEN s # <<>> /\ Like(Tail(pat), Tail(s))
    ELSE s # <<>> /\ Head(s) = Head(pat) /\ Like(Tail(pat), Tail(s))

\* column.ilike(pat): LIKE on the lower-cased operands
ILike(s, pat) == Like(Lower(pat), Lower(s))

-----------------------------------------------------------------------------
(* The models: Question and Category rows *)

\* Question.format(): the row as the dictionary the responses carry
Format(q) ==
    [id |-> q.id, question |-> q.question, answer |-> q.answer,
     category |-> q.category, difficulty |-> q.difficulty]

FormatAll(qs) == [i \in 1..Len(qs) |-> Format(qs[i])]

\* Question(...).insert(): the row gets the next id of the sequence
Insert(table, fields, id) ==
    Append(table, [id |-> id, question |-> fields.question,
                   answer |-> fields.answer, category |-> fields.category,
                   difficulty |-> fields.difficulty])

\* question.delete(): the row leaves the table, the others keep their order
Delete(table, id) == SelectSeq(table, LAMBDA q : q.id # id)

\* Query.order_by(Question.id): the rows in ascending id
RECURSIVE OrderById(_)
OrderById(rows) ==
    IF rows = <<>> THEN <<>>
    ELSE LET least == CHOOSE i \in 1..Len(rows) :
                          \A j \in 1..Len(rows) : rows[i].id <= rows[j].id
         IN <<rows[least]>> \o
            OrderById(SubSeq(rows, 1, least - 1) \o
                      SubSeq(rows, least + 1, Len(rows)))

-----------------------------------------------------------------------------
(* paginate_questions *)

paginate_questions_NextPage(page, selection) ==
    LET start == page * QUESTIONS_PER_SHELF
        end == start + QUESTIONS_PER_SHELF
    IN PySlice(FormatAll(selection), start, end)

paginate_questions(page, selection) ==
    LET start == (page - 1) * QUESTIONS_PER_SHELF
        end == start + QUESTIONS_PER_SHELF
        questions == FormatAll(selection)
    IN PySlice(questions, start, end)

-----------------------------------------------------------------------------
(* The inputs the requests are drawn from *)

Pages == 0..MaxPage

QuestionIds == 1..MaxId

\* category ids of the requests; 0 is the id of no category
CategoryIds == 0..2

InitialCategories ==
    {[id |-> 1, type |-> "Science"], [id |-> 2, type |-> "Art"]}

\* the bodies of the create requests
NewQuestions ==
    {[question |-> <<"A", "b">>, answer |-> <<"c">>,
      category |-> 1, difficulty |-> 1],
     [question |-> <<"b", "c">>, answer |-> <<"a">>,
      category |-> 2, difficulty |-> 2]}

\* the searchTerm of the search requests; <<>> is an empty or absent term
SearchTerms ==
    {<<>>, <<"a">>, <<"B", "C">>, <<"c">>, <<"a", "_">>}

\* what a quiz body holds under quiz_category: nothing, null, an object
\* without id, an object with id
QuizCategoryShapes == {"absent", "null", "noid", "withid"}

NoFields ==
    [question |-> <<>>, answer |-> <<>>, category |-> 0, difficulty |-> 0]

BaseRequest ==
    [op |-> "none", page |-> 1, id |-> 0, data |-> FALSE, term |-> <<>>,
     fields |-> NoFields, quiz_category |-> "absent", category |-> 0,
     has_previous |-> FALSE, previous_questions |-> {}]

BaseResponse ==
    [status |-> 0, questions |-> <<>>, total_questions |-> 0,
     question |-> <<>>, deleted |-> 0, created |-> 0, categories |-> {},
     current_category |-> {}]

\* abort(code), answered by the error handler registered for the code; an
\* uncaught exception is answered by the handler for 500
Abort(code) == [BaseResponse EXCEPT !.status = code]

Ok == [BaseResponse EXCEPT !.status = 200]

\* {category.id: category.type for category in categories}
FormatCategories(cats) == {<<c.id, c.type>> : c \in cats}

-----------------------------------------------------------------------------
(* The handlers: each gives the response, and the table it leaves *)

get_categories(cats) ==
    [Ok EXCEPT !.categories = FormatCategories(cats)]

\* the body of the try block of get_questions
get_questions_try(table, cats, req) ==
    LET selection == table
        current_questions == paginate_questions(req.page, selection)
    IN IF Len(current_questions) = 0
       THEN Abort(404)
       ELSE [Ok EXCEPT !.questions = current_questions,
                       !.categories = FormatCategories(cats),
                       !.total_questions = Len(selection)]

\* the bare except answers whatever the block raised, abort(404) included,
\* by abort(422)
get_questions(table, cats, req) ==
    LET r == get_questions_try(table, cats, req)
    IN IF r.status = 200 THEN r ELSE Abort(422)

delete_question_table_Keep(table, question_id) == table

delete_question_table_AtMost(table, question_id) ==
    SelectSeq(table, LAMBDA q : q.id > question_id)

delete_question_table(table, question_id) ==
    IF \E i \in 1..Len(table) : table[i].id = question_id
    THEN Delete(table, question_id)
    ELSE table

delete_question(table, cats, req) ==
    IF ~(\E i \in 1..Len(table) : table[i].id = req.id)
    THEN Abort(404)
    ELSE LET selection == delete_question_table(table, req.id)
         IN [Ok EXCEPT !.deleted = req.id,
                       !.questions = paginate_questions(req.page, selection),
                       !.categories = FormatCategories(cats),
                       !.total_questions = Len(selection)]

create_question_table(table, req, id) ==
    IF req.data THEN Insert(table, req.fields, id) ELSE table

create_question(table, req, id) ==
    IF ~req.data
    THEN Abort(405)
    ELSE LET after == create_question_table(table, req, id)
             selection == OrderById(after)
         IN [Ok EXCEPT !.questions = paginate_questions(req.page, selection),
                       !.created = id,
                       !.total_questions = Len(after)]

\* Question.query.order_by(Question.id).filter(
\*     Question.question.ilike('%{}%'.format(search)))
search_selection(table, search) ==
    SelectSeq(OrderById(table),
              LAMBDA q : ILike(q.question, <<"%">> \o search \o <<"%">>))

search_question(table, req) ==
    IF ~req.data
    THEN Abort(422)
    ELSE IF req.term = <<>>
    THEN Abort(500)
    ELSE [Ok EXCEPT !.questions =
                        paginate_questions(req.page,
                                           search_selection(table, req.term)),
                    !.total_questions = Len(table)]

get_questions_by_category(table, cats, req) ==
    LET selection == SelectSeq(table, LAMBDA q : q.category = req.id)
        current_category == {c \in cats : c.id = req.id}
    IN IF current_category = {}
       THEN Abort(404)
       ELSE [Ok EXCEPT !.questions = paginate_questions(req.page, selection),
                       !.total_questions = Len(selection),
                       !.current_category =
                           FormatCategories(current_category)]

\* Question.query.filter_by(category=...).filter(Question.id.notin_(...)).all()
quiz_pool_AnyId(table, category, previous_questions) ==
    SelectSeq(table, LAMBDA q : q.category = category)

quiz_pool(table, category, previous_questions) ==
    SelectSeq(table, LAMBDA q : q.category = category
                                /\ q.id \notin previous_questions)

\* Question.query.order_by(func.random()).first(): any row, or None (no
\* row) of an empty table
random_first(table) == Range(table)

\* the result of play_quizzes once the body has passed its checks; the
\* draws of random.randrange and func.random() make it a set
quiz_result_NoFallback(table, category, previous_questions) ==
    LET questions_query == quiz_pool(table, category, previous_questions)
    IN IF Len(questions_query) > 0
       THEN {[Ok EXCEPT !.question = <<Format(questions_query[i + 1])>>] :
                 i \in 0..(Len(questions_query) - 1)}
       ELSE {Abort(404)}

quiz_result_NullQuestion(table, category, previous_questions) ==
    LET questions_query == quiz_pool(table, category, previous_questions)
    IN IF Len(questions_query) > 0
       THEN {[Ok EXCEPT !.question = <<Format(questions_query[i + 1])>>] :
                 i \in 0..(Len(questions_query) - 1)}
       ELSE IF random_first(table) = {}
       THEN {Ok}
       ELSE {[Ok EXCEPT !.question = <<Format(current_question)>>] :
                 current_question \in random_first(table)}

quiz_result(table, category, previous_questions) ==
    LET questions_query == quiz_pool(table, category, previous_questions)
        length_of_available_question == Len(questions_query)
    IN IF length_of_available_question > 0
       THEN {[Ok EXCEPT !.question = <<Format(questions_query[i + 1])>>] :
                 i \in 0..(length_of_available_question - 1)}
       ELSE IF random_first(table) = {}
       THEN {Abort(500)}
       ELSE {[Ok EXCEPT !.question = <<Format(current_question)>>] :
                 current_question \in random_first(table)}

play_quizzes_AcceptAny(table, req) ==
    quiz_result(table, req.category, req.previous_questions)

play_quizzes(table, req) ==
    IF ~req.data
    THEN {Abort(422)}
    ELSE IF req.quiz_category = "null"
    THEN {Abort(500)}
    ELSE IF req.quiz_category = "withid" /\ req.has_previous
    THEN quiz_result(table, req.category, req.previous_questions)
    ELSE {Abort(404)}

-----------------------------------------------------------------------------
(* The API: one action per request handler *)

\* the history of deletes, kept from what the responses report
DeletedAfter(req, resp) ==
    IF req.op = "delete" /\ resp.status = 200
    THEN deleted \cup {resp.deleted}
    ELSE deleted

Serve(req, resp, table) ==
    /\ request' = req
    /\ response' = resp
    /\ store' = table
    /\ deleted' = DeletedAfter(req, resp)
    /\ UNCHANGED <<categories, pgVars, sessionVars>>

GetCategories ==
    /\ Serve([BaseRequest EXCEPT !.op = "categories"],
             get_categories(categories), store)
    /\ UNCHANGED nextId

GetQuestions ==
    \E page \in Pages :
        LET req == [BaseRequest EXCEPT !.op = "list", !.page = page]
        IN /\ Serve(req, get_questions(store, categories, req), store)
           /\ UNCHANGED nextId

DeleteQuestion ==
    \E question_id \in QuestionIds, page \in Pages :
        LET req == [BaseRequest EXCEPT !.op = "delete", !.page = page,
                                       !.id = question_id]
        IN /\ Serve(req, delete_question(store, categories, req),
                    delete_question_table(store, question_id))
           /\ UNCHANGED nextId

CreateQuestion ==
    /\ nextId <= MaxId
    /\ \E page \in Pages, data \in BOOLEAN, fields \in NewQuestions :
        LET req == [BaseRequest EXCEPT
                        !.op = "create", !.page = page, !.data = data,
                        !.fields = IF data THEN fields ELSE NoFields]
        IN /\ Serve(req, create_question(store, req, nextId),
                    create_question_table(store, req, nextId))
           /\ nextId' = IF data THEN nextId + 1 ELSE nextId

SearchQuestion ==
    \E page \in Pages, data \in BOOLEAN, term \in SearchTerms :
        LET req == [BaseRequest EXCEPT
                        !.op = "search", !.page = page, !.data = data,
                        !.term = IF data THEN term ELSE <<>>]
        IN /\ Serve(req, search_question(store, req), store)
           /\ UNCHANGED nextId

GetQuestionsByCategory ==
    \E category_id \in CategoryIds, page \in Pages :
        LET req == [BaseRequest EXCEPT !.op = "category", !.page = page,
                                       !.id = category_id]
        IN /\ Serve(req, get_questions_by_category(store, categories, req),
                    store)
           /\ UNCHANGED nextId

\* the bodies of the quiz requests: none, or an object with some of its keys
QuizRequests ==
    {[BaseRequest EXCEPT !.op = "quiz"]} \cup
    {[BaseRequest EXCEPT !.op = "quiz", !.data = TRUE, !.quiz_category = shape,
                         !.category = IF shape = "withid" THEN c ELSE 0,
                         !.has_previous = hp,
                         !.previous_questions = IF hp THEN prev ELSE {}] :
        shape \in QuizCategoryShapes, c \in CategoryIds, hp \in BOOLEAN,
        prev \in SUBSET QuestionIds}

PlayQuizzes ==
    \E req \in QuizRequests :
        \E resp \in play_quizzes(store, req) :
            /\ Serve(req, resp, store)
            /\ UNCHANGED nextId

Init ==
    /\ store = <<>>
    /\ categories = InitialCategories
    /\ nextId = 1
    /\ request = BaseRequest
    /\ response = BaseResponse
    /\ deleted = {}
    /\ pgPage = 1
    /\ pgItems = <<>>
    /\ pgOut = <<>>
    /\ pgDone = FALSE
    /\ quizCategory = 0
    /\ previous = <<>>
    /\ served = <<>>

Next ==
    \/ GetCategories
    \/ GetQuestions
    \/ DeleteQuestion
    \/ CreateQuestion
    \/ SearchQuestion
    \/ GetQuestionsByCategory
    \/ PlayQuizzes

Spec == Init /\ [][Next]_vars

-----------------------------------------------------------------------------
(* paginate_questions on its own: any page number, selections longer than  *)
(* two pages                                                               *)

SampleRow(i) ==
    [id |-> i,
     question |-> IF i % 2 = 1 THEN <<"A", "b">> ELSE <<"b", "c">>,
     answer |-> <<"c">>, category |-> 1 + (i % 2), difficulty |-> 1]

\* selections of every length up to MaxItems, in ascending and in
\* descending id
PageSelections ==
    UNION {{[i \in 1..n |-> SampleRow(i)],
            [i \in 1..n |-> SampleRow(n + 1 - i)]} : n \in 0..MaxItems}

PageNumbers == (0 - 2)..(MaxPage + 1)

InitPaginate ==
    /\ store = <<>>
    /\ categories = InitialCategories
    /\ nextId = 1
    /\ request = BaseRequest
    /\ response = BaseResponse
    /\ deleted = {}
    /\ pgPage \in PageNumbers
    /\ pgItems \in PageSelections
    /\ pgOut = <<>>
    /\ pgDone = FALSE
    /\ quizCategory = 0
    /\ previous = <<>>
    /\ served = <<>>

Paginate ==
    /\ ~pgDone
    /\ pgOut' = paginate_questions(pgPage, pgItems)
    /\ pgDone' = TRUE
    /\ UNCHANGED <<pgPage, pgItems, apiVars, sessionVars>>

SpecPaginate == InitPaginate /\ [][Paginate]_vars

-----------------------------------------------------------------------------
(* A quiz session: the client plays one category against a table that does *)
(* not change, and sends back the id of every question it was served       *)

\* the tables of up to MaxId rows, with the ids 1, 2, ... of their inserts
SessionStores ==
    UNION {{[i \in 1..n |-> [id |-> i, question |-> f[i].question,
                             answer |-> f[i].answer,
                             category |-> f[i].category,
                             difficulty |-> f[i].difficulty]] :
               f \in [1..n -> NewQuestions]} : n \in 0..MaxId}

InitSession ==
    /\ store \in SessionStores
    /\ categories = InitialCategories
    /\ nextId = Len(store) + 1
    /\ request = BaseRequest
    /\ response = BaseResponse
    /\ deleted = {}
    /\ pgPage = 1
    /\ pgItems = <<>>
    /\ pgOut = <<>>
    /\ pgDone = FALSE
    /\ quizCategory \in {c.id : c \in InitialCategories}
    /\ previous = <<>>
    /\ served = <<>>

QuizRound ==
    /\ Len(served) < MaxRounds
    /\ LET req == [BaseRequest EXCEPT
                       !.op = "quiz", !.data = TRUE,
                       !.quiz_category = "withid", !.category = quizCategory,
                       !.has_previous = TRUE,
                       !.previous_questions = Range(previous)]
       IN \E resp \in play_quizzes(store, req) :
              /\ request' = req
              /\ response' = resp
              /\ served' = IF resp.status = 200
                           THEN served \o resp.question
                           ELSE served
              /\ previous' = IF resp.status = 200
                             THEN Append(previous, resp.question[1].id)
                             ELSE previous
    /\ UNCHANGED <<store, categories, nextId, deleted, quizCategory, pgVars>>

SpecSession == InitSession /\ [][QuizRound]_vars

-----------------------------------------------------------------------------
(* The claims *)

QuizWellFormed(req) ==
    req.op = "quiz" /\ req.data /\ req.quiz_category = "withid"
                    /\ req.has_previous

\* a quiz body that is an object without quiz_category, without the id of
\* quiz_category, or without previous_questions
QuizLacksKeys(req) ==
    /\ req.op = "quiz"
    /\ req.data
    /\ \/ req.quiz_category \in {"absent", "noid"}
       \/ req.quiz_category = "withid" /\ ~req.has_previous

Eligible(table, req) ==
    {q \in Range(table) : q.category = req.category
                          /\ q.id \notin req.previous_questions}

ServedQuestion == response.question[1]

\* sub is a substring of s
IsSubstring(sub, s) ==
    \E i \in 0..(Len(s) - Len(sub)) : SubSeq(s, i + 1, i + Len(sub)) = sub

\* C1: for a page number p >= 1, paginate_questions returns the items
\* (p-1)*10+1 .. (p-1)*10+10 of the selection, in order and clipped to the
\* selection: min(10, max(0, len - (p-1)*10)) of them.
C1_PageIsClippedSlice ==
    pgDone /\ pgPage >= 1 =>
        LET first == (pgPage - 1) * 10
            length == Min(10, Max(0, Len(pgItems) - first))
        IN /\ Len(pgOut) = length
           /\ \A i \in 1..length : pgOut[i] = Format(pgItems[first + i])

\* a selection of 12, page 2: its last two items
C1_Witness ==
    /\ pgDone
    /\ pgPage = 2
    /\ Len(pgItems) = 12
    /\ pgOut = <<Format(pgItems[11]), Format(pgItems[12])>>

\* C2: a quiz request with a category id and previous_questions, for which
\* some question of the category has an id outside previous_questions, gets
\* a question of that category whose id is not in previous_questions.
C2_QuizExcludesPrevious ==
    QuizWellFormed(request) /\ Eligible(store, request) # {} =>
        /\ response.status = 200
        /\ Len(response.question) = 1
        /\ ServedQuestion.id \notin request.previous_questions
        /\ ServedQuestion.category = request.category

\* the exclusion decides: a question of the category is in previous_questions
C2_Witness ==
    /\ QuizWellFormed(request)
    /\ response.status = 200
    /\ Eligible(store, request) # {}
    /\ \E q \in Range(store) : q.category = request.category
                               /\ q.id \in request.previous_questions

\* C3: in a quiz session on one category, with every served id sent back in
\* previous_questions and the table unchanged, no question is served twice
\* and every served question is of the chosen category.
C3_SessionNeverRepeats ==
    /\ \A i, j \in 1..Len(served) : i # j => served[i].id # served[j].id
    /\ \A i \in 1..Len(served) : served[i].category = quizCategory

C6_QuizRejections ==
    request.op = "quiz" /\ ~QuizWellFormed(request) =>
        /\ response.question = <<>>
        /\ ~request.data => response.status = 422
        /\ QuizLacksKeys(request) => response.status = 404
        /\ request.data /\ request.quiz_category = "null" =>
               response.status = 500

\* a body without previous_questions, on a table that holds questions of
\* the category asked for
C6_Witness ==
    /\ request.op = "quiz"
    /\ request.quiz_category = "withid"
    /\ ~request.has_previous
    /\ response.status = 404
    /\ \E q \in Range(store) : q.category = request.category

\* C7: a search with a non-empty term selects exactly the questions whose
\* lower-cased text holds the lower-cased term as a substring, in ascending
\* id, and pages them.
C7_SearchIsSubstringFilter ==
    request.op = "search" /\ request.data /\ request.term # <<>> =>
        /\ response.status = 200
        /\ response.questions =
               paginate_questions(
                   request.page,
                   SelectSeq(OrderById(store),
                             LAMBDA q : IsSubstring(Lower(request.term),
                                                    Lower(q.question))))

\* C8: listing questions ends in the not-found outcome (404) whenever the
\* page asked for is empty, on an empty table and past the last page alike.
C8_EmptyPageIsNotFound ==
    request.op = "list" /\ paginate_questions(request.page, store) = <<>> =>
        response.status = 404

\* what a delete step does: of an id in the table, it removes that row and
\* no other and reports one question fewer; of any other id, it is answered
\* by 404
DeleteStep ==
    request'.op = "delete" =>
        IF \E q \in Range(store) : q.id = request'.id
        THEN /\ response'.status = 200
             /\ response'.deleted = request'.id
             /\ response'.total_questions = Len(store) - 1
             /\ Len(store') = Len(store) - 1
             /\ store' = SelectSeq(store, LAMBDA q : q.id # request'.id)
        ELSE response'.status = 404

\* no row and no response carries the id of a deleted question
NoDeletedServed ==
    \A id \in deleted :
        /\ \A q \in Range(store) : q.id # id
        /\ \A q \in Range(response.questions) : q.id # id
        /\ \A q \in Range(response.question) : q.id # id

\* C9: deleting an id of the table removes exactly that question, reports
\* total_questions one lower, and no later response returns the question;
\* deleting an id that is not in the table is answered by not found.
C9_DeletePersists == [][DeleteStep]_vars /\ []NoDeletedServed

\* after a delete, a later request is served other questions
C9_Witness ==
    /\ deleted # {}
    /\ request.op \in {"list", "search", "category", "quiz"}
    /\ response.status = 200
    /\ response.questions \o response.question # <<>>

\* the table a step should leave: the one it found, but for the row a
\* successful create reports created and the row a successful delete
\* reports deleted
StoreEffect ==
    IF request'.op = "create" /\ response'.status = 200
    THEN Append(store, [id |-> response'.created,
                        question |-> request'.fields.question,
                        answer |-> request'.fields.answer,
                        category |-> request'.fields.category,
                        difficulty |-> request'.fields.difficulty])
    ELSE IF request'.op = "delete" /\ response'.status = 200
    THEN SelectSeq(store, LAMBDA q : q.id # response'.deleted)
    ELSE store

\* C10: list, search, category filter and quiz never change the questions
\* or the categories, nor does a delete of an id that is not in the table:
\* only successful creates and successful deletes change the store.
C10_OnlyCreateAndDeleteWrite ==
    [][store' = StoreEffect /\ categories' = categories]_vars

\* a delete that failed, on a table that holds questions and has lost some
C10_Witness ==
    /\ request.op = "delete"
    /\ response.status = 404
    /\ store # <<>>
    /\ deleted # {}

====
